---- MODULE Spec2Model ----
(***************************************************************************)
(* A model of the two storage adapters of waterbutler:                     *)
(*   waterbutler/providers/box/provider.py       (BoxProvider, BoxPath)    *)
(*   waterbutler/providers/owncloud/provider.py  (OwnCloudProvider)        *)
(* Every operation is a coroutine; each make_request is a suspension point.*)
(* An operation is modelled by one action for the code that runs up to its *)
(* first request and one action per answer it waits for.  The remote       *)
(* services are modelled as state (which items exist) plus answers the     *)
(* adapter cannot predict (server faults, version history).                *)
(* Python strings are sequences of tokens: "/" and one token per segment.  *)
(***************************************************************************)
EXTENDS Integers, Sequences, FiniteSets, TLC

VARIABLES
    provider,     \* which adapter instance the caller constructed
    token,        \* BoxProvider.token
    folder,       \* BoxProvider.folder
    auth,         \* OwnCloudProvider.auth
    webdav_url,   \* OwnCloudProvider.webdav_url
    items,        \* Box service: id -> item (file, folder, web_link or none)
    moved,        \* Box service: id -> id it now resolves to (relocation)
    ocFiles,      \* ownCloud service: the resource paths that exist
    task,         \* the coroutines: task id -> its frame
    workload      \* what the callers ask for: concurrency and paths

vars == <<provider, token, folder, auth, webdav_url, items, moved, ocFiles,
          task, workload>>

adapterFields == <<token, folder, auth, webdav_url>>

(***************************************************************************)
(* Bounds of the model.                                                    *)
(***************************************************************************)
MaxId == 3
MaxVersions == 2

IdNames == <<"1", "2", "3", "4", "5", "6">>
VersionNames == <<"v1", "v2", "v3", "v4">>
Ids == {IdNames[i] : i \in 1..MaxId}
Names == {"a"}
Tasks == {1, 2}
RootId == IdNames[1]

(***************************************************************************)
(* Python string helpers.                                                  *)
(***************************************************************************)
StartsWithSlash(s) == Len(s) > 0 /\ s[1] = "/"
EndsWithSlash(s) == Len(s) > 0 /\ s[Len(s)] = "/"

RECURSIVE SplitFrom(_, _, _)
SplitFrom(s, i, cur) ==
    IF i > Len(s) THEN <<cur>>
    ELSE IF s[i] = "/" THEN <<cur>> \o SplitFrom(s, i + 1, <<>>)
    ELSE SplitFrom(s, i + 1, Append(cur, s[i]))

\* str.split('/')
Split(s) == SplitFrom(s, 1, <<>>)

RECURSIVE LStrip(_)
LStrip(s) == IF StartsWithSlash(s) THEN LStrip(Tail(s)) ELSE s

RECURSIVE RStrip(_)
RStrip(s) == IF EndsWithSlash(s) THEN RStrip(SubSeq(s, 1, Len(s) - 1)) ELSE s

\* os.path.join(a, b): an absolute b discards a
OsPathJoin(a, b) ==
    IF StartsWithSlash(b) THEN b
    ELSE IF a = <<>> \/ EndsWithSlash(a) THEN a \o b
    ELSE a \o <<"/">> \o b

\* Python truthiness of a str / of a parsed JSON object
TruthyStr(s) == s # <<>>
TruthyData(d) == DOMAIN d # {}

(***************************************************************************)
(* Path model.                                                             *)
(***************************************************************************)
\* waterbutler.core.utils.WaterButlerPath
WaterButlerPath(raw, prefix, suffix) ==
    LET p1 == IF prefix THEN raw ELSE LStrip(raw)
        p2 == IF suffix \/ p1 = <<>> THEN p1 ELSE RStrip(p1)
        parts == Split(RStrip(raw))
    IN [orig    |-> raw,
        path    |-> p2,
        is_dir  |-> EndsWithSlash(raw),
        is_file |-> ~EndsWithSlash(raw),
        name    |-> parts[Len(parts)]]

\* str(path)
PathStr(p) == p.orig

BoxPathId(raw) == IF raw # <<"/">> THEN Split(raw)[2] ELSE raw

BoxPath(raw) ==
    LET base == WaterButlerPath(raw, FALSE, FALSE)
    IN [orig |-> base.orig, path |-> base.path, is_dir |-> base.is_dir,
        is_file |-> base.is_file, name |-> base.name, _id |-> BoxPathId(raw)]

OwnCloudPath(raw) == WaterButlerPath(raw, FALSE, TRUE)

\* The paths callers pass: absolute, as the path model requires.
BoxPaths ==
    {<<"/">>}
    \cup {<<"/", i, "/">> : i \in Ids}
    \cup {<<"/", i, "/", n>> : i \in Ids, n \in Names}

OCPaths == {<<"/", n>> : n \in Names} \cup {<<"/", "d", "/">>, <<"/", "d", "/", "a">>}

NoRevision == [given |-> FALSE, val |-> <<>>]
Revisions ==
    {NoRevision, [given |-> TRUE, val |-> <<>>],
     [given |-> TRUE, val |-> <<IdNames[2]>>],
     [given |-> TRUE, val |-> <<VersionNames[1]>>]}

(***************************************************************************)
(* The Box service (external).  An item is a file, a folder or a web_link; *)
(* a file request on a relocated id is answered for the id it moved to.    *)
(* Version history is not tracked: the service answers with some history.  *)
(***************************************************************************)
NoItem == [type |-> "none", name |-> <<>>, parent |-> "0"]
None == [tag |-> "none"]

RawEntry(i, its) == [type |-> its[i].type, id |-> <<i>>, name |-> its[i].name]

\* the file an id string addresses (after relocation), "0" when it is no id
ResolveFile(s, mv) == IF Len(s) = 1 /\ s[1] \in Ids THEN mv[s[1]] ELSE "0"
DirectId(s) == IF Len(s) = 1 /\ s[1] \in Ids THEN s[1] ELSE "0"
ItemAt(i, its) == IF i \in Ids THEN its[i] ELSE NoItem

RECURSIVE ListingFrom(_, _, _)
ListingFrom(k, d, its) ==
    IF k > MaxId THEN <<>>
    ELSE (IF its[IdNames[k]].type # "none" /\ its[IdNames[k]].parent = d
          THEN <<RawEntry(IdNames[k], its)>> ELSE <<>>)
         \o ListingFrom(k + 1, d, its)

PriorVersions(n) ==
    [k \in 1..n |-> [type |-> "file_version", id |-> <<VersionNames[n - k + 1]>>]]

Answer(status, body, its) == [status |-> status, body |-> body, items |-> its]

\* what a service may answer to any request whatever its state: the
\* credentials are refused, or the server fails
Faults == {401, 500}

BoxServeFile(req, its, mv) ==
    LET r == ResolveFile(req.segs[2], mv)
        exists == ItemAt(r, its).type = "file"
    IN  IF ~exists THEN {Answer(404, <<>>, its)}
        ELSE IF req.method = "DELETE"
        THEN {Answer(204, <<>>, [its EXCEPT ![r] = NoItem])}
        ELSE IF Len(req.segs) = 2
        THEN {Answer(200, RawEntry(r, its), its), Answer(200, <<>>, its)}
        ELSE IF req.segs[3] = <<"versions">>
        THEN {Answer(403, <<>>, its)}
             \cup {Answer(200, [entries |-> PriorVersions(n)], its) : n \in 0..MaxVersions}
        ELSE IF req.base = "upload"
        THEN {Answer(201, [entries |-> <<RawEntry(r, its)>>], its)}
        ELSE IF "version" \in DOMAIN req.query
        THEN {Answer(200, <<>>, its), Answer(404, <<>>, its)}
        ELSE {Answer(200, <<>>, its)}

BoxServeCreate(req, its) ==
    LET p == DirectId(req.form.parent_id)
        taken == \E j \in Ids : /\ its[j].type # "none"
                                /\ its[j].parent = p
                                /\ its[j].name = req.form.file
        free == {j \in Ids : its[j].type = "none"}
        made(j) == [its EXCEPT ![j] = [type |-> "file", name |-> req.form.file, parent |-> p]]
    IN  IF ItemAt(p, its).type # "folder" THEN {Answer(404, <<>>, its)}
        ELSE IF taken THEN {Answer(409, <<>>, its)}
        ELSE {Answer(201, [entries |-> <<RawEntry(j, made(j))>>], made(j)) : j \in free}

BoxServeFolder(req, its) ==
    LET d == DirectId(req.segs[2])
    IN  IF ItemAt(d, its).type = "folder"
        THEN {Answer(200, [entries |-> ListingFrom(1, d, its)], its)}
        ELSE {Answer(404, <<>>, its)}

\* every answer the service can give to req; a fault is always possible
BoxServe(req, its, mv) ==
    {Answer(s, <<>>, its) : s \in Faults}
    \cup (IF req.segs[1] = <<"folders">> THEN BoxServeFolder(req, its)
          ELSE IF req.base = "upload" /\ Len(req.segs) = 2 THEN BoxServeCreate(req, its)
          ELSE BoxServeFile(req, its, mv))

(***************************************************************************)
(* The ownCloud (WebDAV) service (external): a set of resources.           *)
(***************************************************************************)
OCBaseUrl == <<"http://oc/">>
OCDavUrl == OCBaseUrl \o <<"remote.php/webdav/">>

OCResource(url) == LStrip(SubSeq(url, Len(OCDavUrl) + 1, Len(url)))

PropfindBody(res) ==
    [responses |-> <<[propstats |->
        <<[prop |-> [getcontentlength |-> "5", getetag |-> "e1"]],
          [prop |-> [quota |-> "0"]]>>]>>]

OCAnswer(status, body, fs) == [status |-> status, body |-> body, files |-> fs]

OCServe(req, fs) ==
    LET res == OCResource(req.url)
    IN  {OCAnswer(s, <<>>, fs) : s \in Faults}
        \cup (IF req.method = "PUT"
              THEN (IF EndsWithSlash(res) \/ res = <<>> THEN {OCAnswer(405, <<>>, fs)}
                    ELSE IF res \in fs THEN {OCAnswer(204, <<>>, fs)}
                    ELSE {OCAnswer(201, <<>>, fs \cup {res})})
              ELSE IF res \notin fs THEN {OCAnswer(404, <<>>, fs)}
              ELSE IF req.method = "DELETE" THEN {OCAnswer(204, <<>>, fs \ {res})}
              ELSE IF req.method = "PROPFIND" THEN {OCAnswer(207, PropfindBody(res), fs)}
              ELSE {OCAnswer(200, <<>>, fs)})

(***************************************************************************)
(* Metadata normalizers (waterbutler/providers/*/metadata.py).             *)
(***************************************************************************)
BoxFileMetadata(raw, fld) ==
    [kind |-> "file", name |-> raw.name,
     path |-> <<"/">> \o raw.id \o <<"/">> \o raw.name]

BoxFolderMetadata(raw, fld) ==
    [kind |-> "folder", name |-> raw.name,
     path |-> <<"/">> \o raw.id \o <<"/">> \o raw.name \o <<"/">>]

\* BoxRevision(raw).serialized(): the version is the raw id, else the id in the path
BoxRevision(raw) ==
    [revision |-> raw.revision,
     version  |-> IF "id" \in DOMAIN raw THEN raw.id ELSE Split(raw.path)[2]]

OwnCloudFileMetadata(path, attrs) == [kind |-> "file", path |-> path, attrs |-> attrs]

\* d[k] = v on a dict
SetItem(d, k, v) == [x \in DOMAIN d \cup {k} |-> IF x = k THEN v ELSE d[x]]

(***************************************************************************)
(* Requests.  A log entry is one make_request call: the request, the       *)
(* statuses it expects, the error it throws, and the answer once it came.  *)
(***************************************************************************)
Lit(x) == <<x>>

\* provider.build_url / _build_upload_url with the adapter's default headers
BuildRequest(method, base, segs, query, form) ==
    [method |-> method, base |-> base, segs |-> segs, query |-> query,
     form |-> form, url |-> <<>>, auth |-> <<"Bearer ">> \o token]

DavRequest(method, url) ==
    [method |-> method, base |-> "webdav", segs |-> <<>>, query |-> <<>>,
     form |-> <<>>, url |-> url, auth |-> <<"Basic ">> \o auth]

Entry(req, expects, throws) ==
    [req |-> req, expects |-> expects, throws |-> throws, status |-> 0, body |-> <<>>]

\* BoxProvider._get_file_meta, the request
FileMetaRequest(path) ==
    Entry(BuildRequest("GET", "api", <<Lit("files"), path._id>>, <<>>, <<>>),
          {200}, "MetadataError")

\* BoxProvider._get_folder_meta, the request
FolderMetaRequest(path) ==
    Entry(BuildRequest("GET", "api", <<Lit("folders"), folder, Lit("items")>>, <<>>, <<>>),
          {200}, "MetadataError")

\* BoxProvider.metadata, up to its request
MetadataRequest(pathstr) ==
    LET path == BoxPath(pathstr)
    IN  IF path.is_file THEN FileMetaRequest(path) ELSE FolderMetaRequest(path)

Outcome(kind, ret) == [kind |-> kind, ret |-> ret]

\* BoxProvider._get_file_meta, after the answer
GetFileMeta(data) ==
    IF TruthyData(data)
    THEN Outcome("ok", [tag |-> "meta", v |-> BoxFileMetadata(data, folder)])
    ELSE Outcome("MetadataError", None)

\* a listing that takes everything that is no file for a folder
ClassifyEntryByFile(item) ==
    IF item.type = "file" THEN BoxFileMetadata(item, folder)
    ELSE BoxFolderMetadata(item, folder)

\* BoxProvider._get_folder_meta, one entry of the listing
ClassifyEntry(item) ==
    IF item.type = "folder" THEN BoxFolderMetadata(item, folder)
    ELSE BoxFileMetadata(item, folder)

\* BoxProvider._get_folder_meta, after the answer
GetFolderMeta(data) ==
    Outcome("ok", [tag |-> "list",
                   v |-> [k \in 1..Len(data.entries) |-> ClassifyEntry(data.entries[k])]])

\* make_request raises `throws` on a status outside `expects`
Raises(e, r) == r.status \notin e.expects

\* BoxProvider.metadata, from the answer to its request
MetadataOutcome(pathstr, e, r) ==
    IF Raises(e, r) THEN Outcome(e.throws, None)
    ELSE IF BoxPath(pathstr).is_file THEN GetFileMeta(r.body)
    ELSE GetFolderMeta(r.body)

\* download that asks for the version whenever a revision is given
DownloadRequestAnyRevision(path, revision) ==
    IF revision.given /\ TruthyStr(revision.val)
    THEN Entry(BuildRequest("GET", "api", <<Lit("files"), path._id, Lit("content")>>,
                            [version |-> revision.val], <<>>),
               {200}, "DownloadError")
    ELSE Entry(BuildRequest("GET", "api", <<Lit("files"), path._id, Lit("content")>>,
                            <<>>, <<>>),
               {200}, "DownloadError")

\* BoxProvider.download, the request
DownloadRequest(path, revision) ==
    IF revision.given /\ TruthyStr(revision.val) /\ revision.val # path._id
    THEN Entry(BuildRequest("GET", "api", <<Lit("files"), path._id, Lit("content")>>,
                            [version |-> revision.val], <<>>),
               {200}, "DownloadError")
    ELSE Entry(BuildRequest("GET", "api", <<Lit("files"), path._id, Lit("content")>>,
                            <<>>, <<>>),
               {200}, "DownloadError")

\* a create-upload into the configured folder
UploadCreateRequestInFolder(path) ==
    Entry(BuildRequest("POST", "upload", <<Lit("files"), Lit("content")>>, <<>>,
                       [parent_id |-> folder, file |-> path.name]),
          {200, 201}, "UploadError")

\* BoxProvider._upload_create, the request
UploadCreateRequest(path) ==
    Entry(BuildRequest("POST", "upload", <<Lit("files"), Lit("content")>>, <<>>,
                       [parent_id |-> path._id, file |-> path.name]),
          {200, 201}, "UploadError")

\* an update addressed to the id of the request path
UploadUpdateRequestFromPath(path, meta) ==
    Entry(BuildRequest("POST", "upload",
                       <<Lit("files"), path._id, Lit("content")>>, <<>>,
                       [parent_id |-> path._id, file |-> path.name]),
          {200, 201}, "UploadError")

\* BoxProvider._upload_update, the request
UploadUpdateRequest(path, meta) ==
    LET meta_path == BoxPath(meta.path)
    IN  Entry(BuildRequest("POST", "upload",
                           <<Lit("files"), meta_path._id, Lit("content")>>, <<>>,
                           [parent_id |-> path._id, file |-> path.name]),
              {200, 201}, "UploadError")

\* BoxProvider.delete, the DELETE request
DeleteRequest(path) ==
    Entry(BuildRequest("DELETE", "api", <<Lit("files"), path._id>>, <<>>, <<>>),
          {204}, "DeleteError")

\* BoxProvider.revisions, the versions request
VersionsRequest(path) ==
    Entry(BuildRequest("GET", "api", <<Lit("files"), path._id, Lit("versions")>>,
                       <<>>, <<>>),
          {200}, "RevisionsError")

\* revisions that numbers the service's entries from 1 again
BuildRevisionsRestarting(curr, entries) ==
    <<BoxRevision(SetItem(curr, "revision", 1))>>
    \o [k \in 1..Len(entries) |-> BoxRevision(SetItem(entries[k], "revision", k))]

\* BoxProvider.revisions, building the result: idx counts from 1
BuildRevisions(curr, entries) ==
    <<BoxRevision(SetItem(curr, "revision", 1))>>
    \o [k \in 1..Len(entries) |-> BoxRevision(SetItem(entries[k], "revision", 1 + k))]

(***************************************************************************)
(* Coroutine frames.  prev, existed and foreign record what the caller     *)
(* could observe: the upload this call follows, whether the path's file    *)
(* existed at the call, whether someone else wrote to the service since.   *)
(***************************************************************************)
NoUpload == [ok |-> FALSE, path |-> <<>>, created |-> FALSE]

IdleFrame ==
    [op |-> "none", pc |-> "idle", path |-> <<>>, revision |-> NoRevision,
     bpath |-> BoxPath(<<"/">>), log |-> <<>>, data |-> <<>>, created |-> FALSE,
     kind |-> "none", ret |-> None,
     prev |-> NoUpload, existed |-> FALSE, foreign |-> FALSE]

Free(t) == task[t].pc = "idle" /\ (t = 1 \/ workload.concurrent)

\* the upload that returned on this task just before, when to the same path
Previous(f, op, p) ==
    IF op = "upload" /\ f.prev.ok /\ f.prev.path = p THEN f.prev ELSE NoUpload

\* what the caller keeps of a call that returned
Returned(f) ==
    IF f.op = "upload" /\ f.kind = "ok" /\ ~f.foreign
    THEN [ok |-> TRUE, path |-> f.path, created |-> f.created]
    ELSE NoUpload

\* what the path names exists in the service: the file with its id, or an item
\* of its name in the folder with its id; for a directory path, the folder
Exists(bp) ==
    IF bp.is_file
    THEN \/ ItemAt(ResolveFile(bp._id, moved), items).type = "file"
         \/ \E j \in Ids : /\ items[j].type # "none"
                            /\ items[j].parent = DirectId(bp._id)
                            /\ items[j].name = bp.name
    ELSE ItemAt(DirectId(bp._id), items).type = "folder"

NewFrame(t, op, p, bp) ==
    [IdleFrame EXCEPT !.op = op, !.path = p, !.bpath = bp,
        !.prev = Previous(task[t], op, p),
        !.existed = Exists(bp)]

Send(f, e, pc) == [f EXCEPT !.log = Append(@, e), !.pc = pc]
Got(f, r) == [f EXCEPT !.log[Len(f.log)].status = r.status,
                       !.log[Len(f.log)].body = r.body]
Finish(f, kind, ret) == [f EXCEPT !.pc = "done", !.kind = kind, !.ret = ret]
Pending(f) == f.log[Len(f.log)]

\* someone other than t wrote to the service
Disturb(tk, t) ==
    [u \in Tasks |-> IF u = t THEN tk[u]
                     ELSE IF tk[u].pc = "idle" THEN [tk[u] EXCEPT !.prev = NoUpload]
                     ELSE [tk[u] EXCEPT !.foreign = TRUE]]

(***************************************************************************)
(* Construction.                                                           *)
(***************************************************************************)
B64Encode(s) == <<"b64(">> \o s \o <<")">>

Credentials == [token |-> <<"tok">>, username |-> <<"u">>, password |-> <<"pw">>]
Settings == [folder |-> <<RootId>>, base_url |-> OCBaseUrl]

RootItem == [type |-> "folder", name |-> <<"root">>, parent |-> "0"]
InitialItems ==
    {NoItem, [type |-> "folder", name |-> <<"d">>, parent |-> RootId],
     [type |-> "web_link", name |-> <<"w">>, parent |-> RootId]}
    \cup {[type |-> "file", name |-> <<n>>, parent |-> RootId] : n \in Names}

Identity == [i \in Ids |-> i]

\* BoxProvider.__init__ and OwnCloudProvider.__init__
Constructed ==
    /\ provider \in {"box", "owncloud"}
    /\ token = Credentials.token
    /\ folder = Settings.folder
    /\ auth = B64Encode(Credentials.username \o <<":">> \o Credentials.password)
    /\ webdav_url = Settings.base_url \o <<"remote.php/webdav/">>
    /\ task = [t \in Tasks |-> IdleFrame]

Init ==
    /\ Constructed
    /\ workload = [concurrent |-> FALSE, paths |-> BoxPaths, revisions |-> Revisions]
    /\ items \in {its \in [Ids -> InitialItems \cup {RootItem}] :
                    /\ \A i \in Ids : (its[i] = RootItem) <=> (i = RootId)
                    /\ provider = "owncloud" => \A i \in Ids \ {RootId} : its[i] = NoItem}
    /\ moved \in {Identity}
                 \cup {[Identity EXCEPT ![i] = j] : i \in {x \in Ids : items[x] = NoItem},
                                                    j \in {x \in Ids : items[x].type = "file"}}
    /\ ocFiles \in (IF provider = "box" THEN {{}} ELSE SUBSET {<<"a">>, <<"d", "/">>})

(***************************************************************************)
(* BoxProvider operations.                                                 *)
(***************************************************************************)
Commit(t, f, its) ==
    /\ task' = [(IF its # items THEN Disturb(task, t) ELSE task) EXCEPT ![t] = f]
    /\ items' = its
    /\ UNCHANGED <<provider, token, folder, auth, webdav_url, moved, ocFiles, workload>>

Start(t, f) ==
    /\ task' = [task EXCEPT ![t] = f]
    /\ UNCHANGED <<provider, token, folder, auth, webdav_url, items, moved, ocFiles,
                   workload>>

Waiting(t, op, pc) == provider = "box" /\ task[t].op = op /\ task[t].pc = pc

\* metadata(path): lines 98-105
BoxMetadataCall(t, p) ==
    /\ provider = "box" /\ Free(t)
    /\ Start(t, Send(NewFrame(t, "metadata", p, BoxPath(p)), MetadataRequest(p), "metadata"))

BoxMetadataResp(t) ==
    /\ Waiting(t, "metadata", "metadata")
    /\ \E r \in BoxServe(Pending(task[t]).req, items, moved) :
         LET f == Got(task[t], r)
             out == MetadataOutcome(task[t].path, Pending(task[t]), r)
         IN  Commit(t, Finish(f, out.kind, out.ret), r.items)

\* download(path, revision): lines 48-65
BoxDownloadCall(t, p, revision) ==
    /\ provider = "box" /\ Free(t)
    /\ LET path == BoxPath(p)
       IN  Start(t, Send([NewFrame(t, "download", p, path) EXCEPT !.revision = revision],
                         DownloadRequest(path, revision), "download"))

BoxDownloadResp(t) ==
    /\ Waiting(t, "download", "download")
    /\ \E r \in BoxServe(Pending(task[t]).req, items, moved) :
         LET f == Got(task[t], r)
         IN  IF Raises(Pending(task[t]), r)
             THEN Commit(t, Finish(f, Pending(task[t]).throws, None), r.items)
             ELSE Commit(t, Finish(f, "ok", [tag |-> "stream"]), r.items)

\* an upload that keeps the id it resolved in the adapter
BoxUploadCallKeepingId(t, p) ==
    /\ provider = "box" /\ Free(t)
    /\ LET path == BoxPath(OsPathJoin(folder, p))
       IN  /\ task' = [task EXCEPT ![t] = Send(NewFrame(t, "upload", p, path),
                                               MetadataRequest(PathStr(path)), "probe")]
           /\ folder' = path._id
    /\ UNCHANGED <<provider, token, auth, webdav_url, items, moved, ocFiles, workload>>

\* upload(stream, path): lines 67-71, up to the metadata probe
BoxUploadCall(t, p) ==
    /\ provider = "box" /\ Free(t)
    /\ LET path == BoxPath(OsPathJoin(folder, p))
       IN  Start(t, Send(NewFrame(t, "upload", p, path),
                         MetadataRequest(PathStr(path)), "probe"))

\* an upload that takes only a 404 of its probe for an absent file
BoxUploadProbeRespSurfacing(t) ==
    /\ Waiting(t, "upload", "probe")
    /\ \E r \in BoxServe(Pending(task[t]).req, items, moved) :
         LET f == Got(task[t], r)
             path == task[t].bpath
             out == MetadataOutcome(PathStr(path), Pending(task[t]), r)
         IN  IF out.kind = "MetadataError" /\ r.status # 404
             THEN Commit(t, Finish(f, out.kind, None), r.items)
             ELSE IF out.kind = "MetadataError"
             THEN Commit(t, Send([f EXCEPT !.created = TRUE],
                                 UploadCreateRequest(path), "create"), r.items)
             ELSE IF out.ret.tag = "list"
             THEN Commit(t, Finish(f, "TypeError", None), r.items)
             ELSE Commit(t, Send([f EXCEPT !.created = FALSE],
                                 UploadUpdateRequest(path, out.ret.v), "update"), r.items)

\* upload: lines 70-77, the probe's answer selects create or update
BoxUploadProbeResp(t) ==
    /\ Waiting(t, "upload", "probe")
    /\ \E r \in BoxServe(Pending(task[t]).req, items, moved) :
         LET f == Got(task[t], r)
             path == task[t].bpath
             out == MetadataOutcome(PathStr(path), Pending(task[t]), r)
         IN  IF out.kind = "MetadataError"
             THEN Commit(t, Send([f EXCEPT !.created = TRUE],
                                 UploadCreateRequest(path), "create"), r.items)
             ELSE IF out.ret.tag = "list"
             THEN Commit(t, Finish(f, "TypeError", None), r.items)
             ELSE Commit(t, Send([f EXCEPT !.created = FALSE],
                                 UploadUpdateRequest(path, out.ret.v), "update"), r.items)

\* an upload that creates the file when its update is refused
BoxUploadPostRespFallingBack(t) ==
    /\ provider = "box" /\ task[t].op = "upload" /\ task[t].pc \in {"create", "update"}
    /\ \E r \in BoxServe(Pending(task[t]).req, items, moved) :
         LET f == Got(task[t], r)
         IN  IF Raises(Pending(task[t]), r) /\ task[t].pc = "update"
             THEN Commit(t, Send([f EXCEPT !.created = TRUE],
                                 UploadCreateRequest(task[t].bpath), "create"), r.items)
             ELSE IF Raises(Pending(task[t]), r)
             THEN Commit(t, Finish(f, Pending(task[t]).throws, None), r.items)
             ELSE LET meta == BoxFileMetadata(r.body.entries[1], folder)
                  IN  Commit(t, Finish([f EXCEPT !.data = r.body], "ok",
                                       [tag |-> "upload", v |-> meta, created |-> f.created]),
                             r.items)

\* upload: lines 167-199 after the POST, and line 79
BoxUploadPostResp(t) ==
    /\ provider = "box" /\ task[t].op = "upload" /\ task[t].pc \in {"create", "update"}
    /\ \E r \in BoxServe(Pending(task[t]).req, items, moved) :
         LET f == Got(task[t], r)
         IN  IF Raises(Pending(task[t]), r)
             THEN Commit(t, Finish(f, Pending(task[t]).throws, None), r.items)
             ELSE LET meta == BoxFileMetadata(r.body.entries[1], folder)
                  IN  Commit(t, Finish([f EXCEPT !.data = r.body], "ok",
                                       [tag |-> "upload", v |-> meta, created |-> f.created]),
                             r.items)

\* delete(path): lines 81-88, up to the metadata call
BoxDeleteCall(t, p) ==
    /\ provider = "box" /\ Free(t)
    /\ LET path == BoxPath(p)
       IN  Start(t, Send(NewFrame(t, "delete", p, path),
                         MetadataRequest(PathStr(path)), "verify"))

\* delete: lines 88-96, after the metadata call
BoxDeleteVerifyResp(t) ==
    /\ Waiting(t, "delete", "verify")
    /\ \E r \in BoxServe(Pending(task[t]).req, items, moved) :
         LET f == Got(task[t], r)
             path == task[t].bpath
             out == MetadataOutcome(PathStr(path), Pending(task[t]), r)
         IN  IF out.kind # "ok"
             THEN Commit(t, Finish(f, out.kind, None), r.items)
             ELSE Commit(t, Send(f, DeleteRequest(path), "delete"), r.items)

\* a delete that sends its DELETE once more when it was refused
BoxDeleteRespRetrying(t) ==
    /\ Waiting(t, "delete", "delete")
    /\ \E r \in BoxServe(Pending(task[t]).req, items, moved) :
         LET f == Got(task[t], r)
         IN  IF Raises(Pending(task[t]), r) /\ Len(f.log) < 3
             THEN Commit(t, Send(f, DeleteRequest(task[t].bpath), "delete"), r.items)
             ELSE IF Raises(Pending(task[t]), r)
             THEN Commit(t, Finish(f, Pending(task[t]).throws, None), r.items)
             ELSE Commit(t, Finish(f, "ok", None), r.items)

BoxDeleteResp(t) ==
    /\ Waiting(t, "delete", "delete")
    /\ \E r \in BoxServe(Pending(task[t]).req, items, moved) :
         LET f == Got(task[t], r)
         IN  IF Raises(Pending(task[t]), r)
             THEN Commit(t, Finish(f, Pending(task[t]).throws, None), r.items)
             ELSE Commit(t, Finish(f, "ok", None), r.items)

\* revisions(path): lines 108-119
BoxRevisionsCall(t, p) ==
    /\ provider = "box" /\ Free(t)
    /\ LET path == BoxPath(p)
       IN  Start(t, Send(NewFrame(t, "revisions", p, path), VersionsRequest(path), "versions"))

\* revisions: lines 114-124, after the versions answer
BoxRevisionsVersionsResp(t) ==
    /\ Waiting(t, "revisions", "versions")
    /\ \E r \in BoxServe(Pending(task[t]).req, items, moved) :
         LET f == Got(task[t], r)
             path == task[t].bpath
         IN  IF Raises(Pending(task[t]), r)
             THEN Commit(t, Finish(f, Pending(task[t]).throws, None), r.items)
             ELSE Commit(t, Send([f EXCEPT !.data = r.body],
                                 MetadataRequest(PathStr(path)), "current"), r.items)

\* revisions: lines 124-133, after the metadata answer
BoxRevisionsCurrentResp(t) ==
    /\ Waiting(t, "revisions", "current")
    /\ \E r \in BoxServe(Pending(task[t]).req, items, moved) :
         LET f == Got(task[t], r)
             path == task[t].bpath
             out == MetadataOutcome(PathStr(path), Pending(task[t]), r)
         IN  IF out.kind # "ok"
             THEN Commit(t, Finish(f, out.kind, None), r.items)
             ELSE IF out.ret.tag = "list"
             THEN Commit(t, Finish(f, "TypeError", None), r.items)
             ELSE Commit(t, Finish(f, "ok",
                                   [tag |-> "revisions",
                                    v |-> BuildRevisions(out.ret.v, f.data.entries)]),
                         r.items)

\* the caller takes the result (or the exception) of a finished call
Return(t) ==
    /\ task[t].pc = "done"
    /\ Start(t, [IdleFrame EXCEPT !.prev = Returned(task[t])])

\* another client of the Box service deletes a file
OtherClientDelete(i) ==
    /\ provider = "box" /\ items[i].type = "file"
    /\ items' = [items EXCEPT ![i] = NoItem]
    /\ task' = Disturb(task, 0)
    /\ UNCHANGED <<provider, token, folder, auth, webdav_url, moved, ocFiles, workload>>

BoxNext ==
    \/ \E t \in Tasks, p \in workload.paths :
         \/ BoxMetadataCall(t, p)
         \/ BoxUploadCall(t, p)
         \/ BoxDeleteCall(t, p)
         \/ BoxRevisionsCall(t, p)
         \/ \E revision \in workload.revisions : BoxDownloadCall(t, p, revision)
    \/ \E t \in Tasks :
         \/ BoxMetadataResp(t)
         \/ BoxDownloadResp(t)
         \/ BoxUploadProbeResp(t)
         \/ BoxUploadPostResp(t)
         \/ BoxDeleteVerifyResp(t)
         \/ BoxDeleteResp(t)
         \/ BoxRevisionsVersionsResp(t)
         \/ BoxRevisionsCurrentResp(t)
    \/ \E i \in Ids : OtherClientDelete(i)
    \/ \E t \in Tasks : Return(t)

(***************************************************************************)
(* OwnCloudProvider operations.                                            *)
(***************************************************************************)
OCCommit(t, f, fs) ==
    /\ task' = [(IF fs # ocFiles THEN Disturb(task, t) ELSE task) EXCEPT ![t] = f]
    /\ ocFiles' = fs
    /\ UNCHANGED <<provider, token, folder, auth, webdav_url, items, moved, workload>>

OCWaiting(t, op) == provider = "owncloud" /\ task[t].op = op /\ task[t].pc = "request"

OCNewFrame(t, op, p) ==
    [IdleFrame EXCEPT !.op = op, !.path = p,
        !.prev = Previous(task[t], op, p),
        !.existed = OCResource(OCDavUrl \o p) \in ocFiles]

\* OwnCloudProvider._metadata_file, the request
PropfindRequest(path) ==
    Entry(DavRequest("PROPFIND", webdav_url \o path.path), {207}, "MetadataError")

\* OwnCloudProvider._metadata_file, parsing the answer
ParseProps(data) ==
    LET tree == data.responses
        attrs == tree[1].propstats[1].prop
    IN  [tagname \in DOMAIN attrs |-> attrs[tagname]]

\* metadata(path): lines 38-61
OCMetadataCall(t, p) ==
    /\ provider = "owncloud" /\ Free(t)
    /\ LET path == OwnCloudPath(p)
       IN  IF path.is_dir
           THEN Start(t, Finish(OCNewFrame(t, "metadata", p), "ok", None))
           ELSE Start(t, Send(OCNewFrame(t, "metadata", p), PropfindRequest(path), "request"))

\* _metadata_file: lines 63-72
OCMetadataResp(t) ==
    /\ OCWaiting(t, "metadata")
    /\ \E r \in OCServe(Pending(task[t]).req, ocFiles) :
         LET f == Got(task[t], r)
             path == OwnCloudPath(task[t].path)
         IN  IF Raises(Pending(task[t]), r)
             THEN OCCommit(t, Finish(f, Pending(task[t]).throws, None), r.files)
             ELSE OCCommit(t, Finish(f, "ok",
                                     [tag |-> "meta",
                                      v |-> OwnCloudFileMetadata(path.path, ParseProps(r.body))]),
                           r.files)

\* a download that asks the server whatever the path
OCDownloadCallAnyPath(t, p) ==
    /\ provider = "owncloud" /\ Free(t)
    /\ LET path == OwnCloudPath(p)
       IN  Start(t, Send(OCNewFrame(t, "download", p),
                         Entry(DavRequest("GET", webdav_url \o path.path),
                               {200}, "DownloadError"),
                         "request"))

\* download(path): lines 78-94
OCDownloadCall(t, p) ==
    /\ provider = "owncloud" /\ Free(t)
    /\ LET path == OwnCloudPath(p)
       IN  IF ~path.is_file
           THEN Start(t, Finish(OCNewFrame(t, "download", p), "DownloadError",
                                [tag |-> "code", code |-> 400]))
           ELSE Start(t, Send(OCNewFrame(t, "download", p),
                              Entry(DavRequest("GET", webdav_url \o path.path),
                                    {200}, "DownloadError"),
                              "request"))

OCDownloadResp(t) ==
    /\ OCWaiting(t, "download")
    /\ \E r \in OCServe(Pending(task[t]).req, ocFiles) :
         LET f == Got(task[t], r)
         IN  IF Raises(Pending(task[t]), r)
             THEN OCCommit(t, Finish(f, Pending(task[t]).throws, None), r.files)
             ELSE OCCommit(t, Finish(f, "ok", [tag |-> "stream"]), r.files)

\* an upload that takes the answer to an overwrite for a success too
OCUploadCallAcceptingNoContent(t, p) ==
    /\ provider = "owncloud" /\ Free(t)
    /\ Start(t, Send(OCNewFrame(t, "upload", p),
                     Entry(DavRequest("PUT", webdav_url \o p), {201, 204}, "UploadError"),
                     "request"))

\* upload(stream, path): lines 97-109
OCUploadCall(t, p) ==
    /\ provider = "owncloud" /\ Free(t)
    /\ Start(t, Send(OCNewFrame(t, "upload", p),
                     Entry(DavRequest("PUT", webdav_url \o p), {201}, "UploadError"),
                     "request"))

OCUploadResp(t) ==
    /\ OCWaiting(t, "upload")
    /\ \E r \in OCServe(Pending(task[t]).req, ocFiles) :
         LET f == Got(task[t], r)
         IN  IF Raises(Pending(task[t]), r)
             THEN OCCommit(t, Finish(f, Pending(task[t]).throws, None), r.files)
             ELSE OCCommit(t, Finish(f, "ok", [tag |-> "bool", v |-> TRUE]), r.files)

\* delete(path): lines 114-124
OCDeleteCall(t, p) ==
    /\ provider = "owncloud" /\ Free(t)
    /\ Start(t, Send(OCNewFrame(t, "delete", p),
                     Entry(DavRequest("DELETE", webdav_url \o p), {204}, "DeleteError"),
                     "request"))

OCDeleteResp(t) ==
    /\ OCWaiting(t, "delete")
    /\ \E r \in OCServe(Pending(task[t]).req, ocFiles) :
         LET f == Got(task[t], r)
         IN  IF Raises(Pending(task[t]), r)
             THEN OCCommit(t, Finish(f, Pending(task[t]).throws, None), r.files)
             ELSE OCCommit(t, Finish(f, "ok", [tag |-> "bool", v |-> TRUE]), r.files)

OCNext ==
    \/ \E t \in Tasks, p \in OCPaths :
         \/ OCMetadataCall(t, p)
         \/ OCDownloadCall(t, p)
         \/ OCUploadCall(t, p)
         \/ OCDeleteCall(t, p)
    \/ \E t \in Tasks :
         \/ OCMetadataResp(t)
         \/ OCDownloadResp(t)
         \/ OCUploadResp(t)
         \/ OCDeleteResp(t)

Next == BoxNext \/ OCNext

Spec == Init /\ [][Next]_vars

(***************************************************************************)
(* Vocabulary of the properties.                                           *)
(***************************************************************************)
Frames == {task[t] : t \in Tasks}
BoxCalls(op) == {f \in Frames : provider = "box" /\ f.op = op}
OCCalls(op) == {f \in Frames : provider = "owncloud" /\ f.op = op}
Done(f) == f.pc = "done"
Answered(e) == e.status # 0

\* the service answered as a healthy server does: no fault, no empty document
Healthy(f) ==
    \A k \in DOMAIN f.log :
        /\ f.log[k].status \notin Faults
        /\ ~(f.log[k].status = 200 /\ f.log[k].req.method = "GET"
             /\ Len(f.log[k].req.segs) = 2 /\ ~TruthyData(f.log[k].body))

OwnError(op) ==
    CASE op = "metadata"  -> "MetadataError"
      [] op = "download"  -> "DownloadError"
      [] op = "upload"    -> "UploadError"
      [] op = "delete"    -> "DeleteError"
      [] op = "revisions" -> "RevisionsError"

\* C1: on the Box adapter, with no other client writing, an upload to a file
\* path whose file does not exist (its folder does) returns created = true, an
\* upload that follows one to the same path returns created = false, and in
\* both the returned metadata's path is the request path.
C1_UploadCreatesThenUpdates ==
    \A f \in BoxCalls("upload") :
        (Done(f) /\ ~f.foreign /\ Healthy(f) /\ Len(f.path) = 4
         /\ ItemAt(DirectId(f.bpath._id), items).type = "folder") =>
            /\ ~f.existed =>
                 (f.kind = "ok" /\ f.ret.created /\ f.ret.v.path = f.path)
            /\ f.prev.ok =>
                 (f.kind = "ok" /\ ~f.ret.created /\ f.ret.v.path = f.path)

\* C2: on the Box adapter a DELETE request is issued only after a metadata
\* request on the same target has succeeded within the same delete call, and
\* never when the target does not exist in the service.
C2_DeleteOnlyConfirmedTarget ==
    \A f \in BoxCalls("delete") :
        \A k \in DOMAIN f.log :
            (f.log[k].req.method = "DELETE" /\ f.path # <<"/">>) =>
                /\ \E j \in 1..(k - 1) :
                     /\ f.log[j].req.method = "GET"
                     /\ f.log[j].req.segs[2] = f.log[k].req.segs[2]
                     /\ f.log[j].status = 200
                /\ ~f.foreign => f.existed

\* C3: whenever Box revisions(path) returns, the result is non-empty, its first
\* entry has revision 1 and is built from a metadata call on the same path, and
\* the rest are the service's version entries in its order, numbered 2, 3, ...
C3_RevisionsShape ==
    \A f \in BoxCalls("revisions") :
        (Done(f) /\ f.kind = "ok") =>
            LET ret == f.ret.v
                entries == f.log[1].body.entries
            IN  /\ Len(f.log) = 2
                /\ f.log[2].req = MetadataRequest(f.path).req
                /\ Len(ret) >= 1
                /\ Len(ret) = 1 + Len(entries)
                /\ ret[1].revision = 1
                /\ ret[1].version = f.log[2].body.id
                /\ \A k \in 1..Len(entries) :
                     /\ ret[k + 1].revision = k + 1
                     /\ ret[k + 1].version = entries[k].id

C3_Witness ==
    \E f \in BoxCalls("revisions") : Done(f) /\ f.kind = "ok" /\ Len(f.ret.v) = 3

\* C4: for an existing file, Box revisions does not fail because the service
\* offers no version history (the versions endpoint refuses with 403): it still
\* returns the current version as its single entry.
C4_NoHistoryStillReturns ==
    \A f \in BoxCalls("revisions") :
        (Done(f) /\ f.existed /\ ~f.foreign /\ f.log[1].status = 403) =>
            (f.kind = "ok" /\ Len(f.ret.v) = 1)

\* C5: a status outside a request's expected set makes the operation fail with
\* the operation's own error kind, except for the metadata probe of Box upload.
C5_OwnErrorKind ==
    \A f \in Frames :
        \A k \in DOMAIN f.log :
            (/\ Answered(f.log[k])
             /\ f.log[k].status \notin f.log[k].expects
             /\ ~(provider = "box" /\ f.op = "upload" /\ k = 1)) =>
                (Done(f) /\ f.kind = OwnError(f.op))

\* an empty revision string is no revision
Supplied(revision) == revision.given /\ revision.val # <<>>
\* the id a path addresses: its first segment, the path itself for the root
FileId(p) == IF p = <<"/">> THEN p ELSE Split(p)[2]
\* the version identifier of a file's current version is the file's id
CurrentVersionId(p) == FileId(p)

\* C6: Box download issues exactly one GET on files/{id}/content, carrying
\* version=<revision> iff a revision is supplied and differs from the file's
\* current version identifier.
C6_DownloadVersionParam ==
    \A f \in BoxCalls("download") :
            LET q == f.log[1].req.query
            IN  /\ Len(f.log) = 1
                /\ f.log[1].req.method = "GET"
                /\ f.log[1].req.segs = <<Lit("files"), FileId(f.path), Lit("content")>>
                /\ ("version" \in DOMAIN q) <=>
                      (Supplied(f.revision) /\ f.revision.val # CurrentVersionId(f.path))
                /\ ("version" \in DOMAIN q) => q.version = f.revision.val

C6_WitnessVersioned ==
    \E f \in BoxCalls("download") :
        Done(f) /\ f.kind = "ok" /\ "version" \in DOMAIN f.log[1].req.query

C6_Witness ==
    \E f \in BoxCalls("download") :
        Done(f) /\ f.kind = "ok" /\ Supplied(f.revision)
        /\ f.revision.val = CurrentVersionId(f.path)

\* C7: Box metadata on a directory path returns one record per entry of the
\* listing, in order, each a folder iff the entry's type tag is 'folder' and a
\* file otherwise.
C7_ListingClassified ==
    \A f \in BoxCalls("metadata") :
        (Done(f) /\ f.kind = "ok" /\ BoxPath(f.path).is_dir) =>
            LET ret == f.ret.v
                entries == f.log[1].body.entries
            IN  /\ Len(ret) = Len(entries)
                /\ \A k \in 1..Len(entries) :
                     /\ ret[k].name = entries[k].name
                     /\ Split(ret[k].path)[2] = entries[k].id
                     /\ ret[k].kind \in {"file", "folder"}
                     /\ (ret[k].kind = "folder") <=> (entries[k].type = "folder")

C7_Witness ==
    \E f \in BoxCalls("metadata") :
        /\ Done(f) /\ f.kind = "ok" /\ BoxPath(f.path).is_dir
        /\ Len(f.ret.v) = 2
        /\ f.log[1].body.entries[1].type = "folder"
        /\ f.log[1].body.entries[2].type = "web_link"

\* C8: on the ownCloud adapter, with no other client writing, an upload to an
\* absent file path succeeds and an upload that follows it to the same path
\* succeeds too.
C8_OCUploadIdempotent ==
    \A f \in OCCalls("upload") :
        (Done(f) /\ ~f.foreign /\ Healthy(f) /\ OwnCloudPath(f.path).is_file) =>
            /\ ~f.existed => f.kind = "ok"
            /\ f.prev.ok => f.kind = "ok"

(***************************************************************************)
(* Two coroutines on one adapter instance.                                 *)
(***************************************************************************)
ConcPaths == {<<"/", IdNames[2], "/", "a">>, <<"/", RootId, "/">>}
ConcItems == [i \in Ids |-> IF i = RootId THEN RootItem
                            ELSE IF i = IdNames[2]
                            THEN [type |-> "file", name |-> <<"a">>, parent |-> RootId]
                            ELSE NoItem]

InitConc ==
    /\ Constructed
    /\ workload = [concurrent |-> TRUE, paths |-> ConcPaths,
                   revisions |-> {NoRevision, [given |-> TRUE, val |-> <<VersionNames[1]>>]}]
    /\ items = ConcItems
    /\ moved = Identity
    /\ ocFiles = {}

SpecConc == InitConc /\ [][Next]_vars

\* two calls with the same arguments issue the same k-th request whenever
\* they got the same answers to the requests before it
SameRequests(f, g) ==
    \A k \in 1..(IF Len(f.log) < Len(g.log) THEN Len(f.log) ELSE Len(g.log)) :
        (\A j \in 1..(k - 1) : /\ f.log[j].status = g.log[j].status
                               /\ f.log[j].body = g.log[j].body) =>
            /\ f.log[k].req = g.log[k].req
            /\ f.log[k].expects = g.log[k].expects
            /\ f.log[k].throws = g.log[k].throws

Deterministic ==
    \A t, u \in Tasks :
        (/\ task[t].op = task[u].op
         /\ task[t].path = task[u].path
         /\ task[t].revision = task[u].revision) => SameRequests(task[t], task[u])

\* C9: no operation of either adapter changes token, folder, auth or
\* webdav_url, and under every interleaving of two operations each issues the
\* requests its arguments and its answers determine.
C9_Stateless == [][UNCHANGED adapterFields]_vars /\ []Deterministic

C9_Witness ==
    /\ task[1].op = "upload" /\ task[1].pc = "update"
    /\ task[2].op = "upload" /\ task[2].pc = "done" /\ Len(task[2].log) = 2
    /\ task[1].path = task[2].path
    /\ task[1].foreign

\* C10 as stated: every Box upload performs one probe and then exactly one
\* POST: a create-upload to the id of the request path's first segment when
\* the probe failed, an update-upload to the id in the probe's result otherwise.
ProbeFailed(e) == Raises(e, e) \/ ~TruthyData(e.body)

ProbeThenOnePost(f) ==
    /\ Len(f.log) = 2
    /\ f.log[1].req = MetadataRequest(OsPathJoin(folder, f.path)).req
    /\ f.log[2].req.method = "POST" /\ f.log[2].req.base = "upload"
    /\ IF ProbeFailed(f.log[1])
       THEN /\ f.log[2].req.segs = <<Lit("files"), Lit("content")>>
            /\ f.log[2].req.form.parent_id = Split(OsPathJoin(folder, f.path))[2]
       ELSE f.log[2].req.segs = <<Lit("files"), f.log[1].body.id, Lit("content")>>

C12_ProbeFailureNotSurfaced ==
    \A f \in BoxCalls("upload") :
        /\ f.kind # "MetadataError"
        /\ (Answered(f.log[1]) /\ ProbeFailed(f.log[1])) =>
              /\ Len(f.log) = 2
              /\ f.log[2] = [UploadCreateRequest(f.bpath) EXCEPT
                                !.status = f.log[2].status, !.body = f.log[2].body]
              /\ f.pc \in {"create", "done"}
              /\ (Answered(f.log[2]) /\ f.log[2].status \in {200, 201}) =>
                    (Done(f) /\ f.kind = "ok" /\ f.ret.created)

C12_Witness ==
    \E f \in BoxCalls("upload") :
        /\ Done(f) /\ f.kind = "ok" /\ f.ret.created
        /\ f.log[1].status = 401 /\ f.log[2].status = 201

\* one request, with this method, on the URL of the path as given, and the
\* call succeeds iff the answer has this status and fails with err otherwise
OneDirectRequest(f, method, status, err) ==
    /\ Len(f.log) = 1
    /\ f.log[1].req.method = method
    /\ f.log[1].req.url = webdav_url \o f.path
    /\ f.pc \in {"request", "done"}
    /\ Answered(f.log[1]) <=> Done(f)
    /\ Done(f) => /\ (f.kind = "ok") <=> (f.log[1].status = status)
                  /\ (f.log[1].status # status) => f.kind = err

\* C13: on the ownCloud adapter upload issues exactly one PUT and delete
\* exactly one DELETE on the URL computed from the given path, with no request
\* before it; upload succeeds iff the status is 201 and delete iff it is 204,
\* any other status raises UploadError, respectively DeleteError.
C13_OCDirectRequests ==
    /\ \A f \in OCCalls("upload") : OneDirectRequest(f, "PUT", 201, "UploadError")
    /\ \A f \in OCCalls("delete") : OneDirectRequest(f, "DELETE", 204, "DeleteError")

C13_Witness ==
    \E f \in OCCalls("delete") :
        /\ Done(f) /\ f.kind = "ok" /\ f.log[1].status = 204
        /\ f.path = <<"/", "d", "/", "a">> /\ ocFiles = {}

\* C14: on the ownCloud adapter metadata on a directory path never completes
\* normally, handing the caller a result as though the directory had been read.
C14_OCFolderNoImplicitSuccess ==
    \A f \in OCCalls("metadata") :
        (Done(f) /\ OwnCloudPath(f.path).is_dir) => f.kind # "ok"

\* the most requests one call of an operation issues
MostRequests(f) ==
    IF provider = "box" /\ f.op \in {"delete", "revisions", "upload"} THEN 2
    ELSE IF f.op = "none" THEN 0
    ELSE 1

\* C15: no operation retries: a call issues at most MostRequests requests, and
\* a request answered with a status outside its expected set is the call's
\* last, except for the probe of Box upload, which the create-upload follows.
C15_NoRetry ==
    \A f \in Frames :
        /\ Len(f.log) <= MostRequests(f)
        /\ \A k \in DOMAIN f.log :
              (/\ Answered(f.log[k])
               /\ f.log[k].status \notin f.log[k].expects
               /\ ~(provider = "box" /\ f.op = "upload" /\ k = 1)) =>
                  (Len(f.log) = k /\ Done(f) /\ f.kind # "ok")
        /\ \A k \in DOMAIN f.log :
              (provider = "box" /\ f.op = "upload" /\ k = 1 /\ Raises(f.log[k], f.log[k])
               /\ Answered(f.log[k])) =>
                  (Len(f.log) = 2 /\ f.log[2].req = UploadCreateRequest(f.bpath).req)

C15_Witness ==
    \E f \in BoxCalls("delete") :
        /\ Done(f) /\ f.kind = "DeleteError" /\ f.existed
        /\ Len(f.log) = 2 /\ f.log[1].status = 200 /\ f.log[2].status = 500

IsCreateUpload(e) ==
    e.req.method = "POST" /\ e.req.segs = <<Lit("files"), Lit("content")>>

\* the path upload works on: os.path.join(self.folder, path)
Joined(f) == OsPathJoin(folder, f.path)

\* the k-th request of f, a create-upload, follows a failed probe of the id
\* that it names as parent, the first segment of the joined path
ParentWasProbed(f, k) ==
    /\ k = 2
    /\ Answered(f.log[1]) /\ ProbeFailed(f.log[1])
    /\ f.log[1].req.method = "GET"
    /\ f.log[1].req.segs[2] = f.log[k].req.form.parent_id
    /\ f.log[k].req.form.parent_id = FileId(Joined(f))

C17_OCDownload ==
    \A f \in OCCalls("download") :
        IF EndsWithSlash(f.path)
        THEN /\ Done(f) /\ f.kind = "DownloadError"
             /\ f.ret = [tag |-> "code", code |-> 400]
             /\ f.log = <<>>
        ELSE /\ Len(f.log) = 1
             /\ f.log[1].req.method = "GET"
             /\ f.log[1].req.url = webdav_url \o LStrip(f.path)
             /\ Answered(f.log[1]) <=> Done(f)
             /\ Done(f) =>
                   /\ (f.kind = "ok" /\ f.ret = [tag |-> "stream"]) <=> (f.log[1].status = 200)
                   /\ (f.log[1].status # 200) => f.kind = "DownloadError"

C17_Witness ==
    \E f \in OCCalls("download") :
        /\ Done(f) /\ EndsWithSlash(f.path)
        /\ f.kind = "DownloadError" /\ f.ret.code = 400 /\ f.log = <<>>

\* the file an update-upload addresses is not in the service
TargetMissing(f) ==
    ItemAt(ResolveFile(f.log[2].req.segs[2], moved), items).type # "file"

\* C11: when another client deletes the file after the probe of a Box upload
\* succeeded and before its update-upload is answered, the update stays
\* addressed to the missing id and its answer ends the call with UploadError:
\* no create-upload, no second probe, no further upload request.
C11_DeletedBeforeUpdate ==
    [][\A t \in Tasks :
          (/\ provider = "box" /\ task[t].op = "upload" /\ task[t].pc = "update"
           /\ TargetMissing(task[t])) =>
              \/ task'[t].pc = "update" /\ task'[t].log = task[t].log
              \/ /\ task'[t].pc = "done"
                 /\ task'[t].kind = "UploadError"
                 /\ Len(task'[t].log) = 2
                 /\ task'[t].log[2].req = task[t].log[2].req
                 /\ task'[t].log[2].req.segs =
                        <<Lit("files"), task[t].log[1].body.id, Lit("content")>>
                 /\ task'[t].log[2].status \notin {200, 201}]_vars

C11_Witness ==
    \E f \in BoxCalls("upload") :
        /\ Done(f) /\ f.kind = "UploadError" /\ ~f.created /\ f.foreign
        /\ Len(f.log) = 2
        /\ f.log[1].status = 200 /\ f.log[2].status = 404

====
